---------------------------- MODULE Spec2Model ----------------------------
(***************************************************************************)
(* Gameplay simulation layer of Deluge: GameState (economy),               *)
(* InteractionSystem (damageable registry), MobManager (creatures) and     *)
(* Player (ranged weapon cooldown).                                        *)
(*                                                                         *)
(* Number representation.  The program computes in IEEE doubles; the model *)
(* computes in exact fixed point:                                          *)
(*   - hit points and damage are held in TENTHS (hp 60 is 600, and         *)
(*     baseDamage * 0.7 is baseDamage * 7);                                *)
(*   - time is held in HUNDREDTHS of a second (fireRate 0.18 is 18);       *)
(*   - positions are held in THOUSANDTHS of a world unit, speeds in tenths *)
(*     of a unit per second, so speed * delta needs no division.           *)
(* An optional value (a `?:` field or parameter) is a set: {} when it is   *)
(* undefined and {v} when it is v.                                         *)
(***************************************************************************)
EXTENDS Integers, Sequences, FiniteSets, TLC

(***************************************************************************)
(* Bounds of the model.                                                    *)
(***************************************************************************)
\* largest inventory count a step may produce
MaxCount == 4
\* largest skill point balance a step may produce
MaxSkill == 2
\* largest damage bonus a step may produce
MaxBonus == 1
\* terrainSize handed to MobManager, in world units
TerrainSize == 20

(***************************************************************************)
(* Program constants.                                                      *)
(***************************************************************************)
\* Player.fireRate = 0.18 s
fireRate == 18
\* Player.bulletDamage
bulletDamage == 24
\* the damage Tool.action hands to handleHit
meleeDamage == 12
\* Player.jumpStrength = 6.5, in tenths
jumpStrength == 65

\* DamageCategory
Categories == {"wood", "stone", "mob", "animal", "generic"}

\* the subscribers handed to onChange
Callbacks == {"updateInventory", "updateSkills"}

None == {}
Some(v) == {v}
Get(o) == CHOOSE v \in o : TRUE

VARIABLES
    inventory,      \* GameState.inventory: Map item -> count (a function on the keys present)
    skillPoints,    \* GameState.skillPoints
    damageBonus,    \* GameState.damageBonus
    listeners,      \* GameState.listeners, in registration order
    targets,        \* InteractionSystem.targets: Map mesh id -> DamageableState
    disposed,       \* the meshes on which dispose() has run
    position,       \* mesh.position of the creatures' meshes: <<x, z>>
    mobs,           \* MobManager.mobs
    fireCooldown,   \* Player.fireCooldown
    velocityY,      \* the vertical velocity last given to the physics body
    sinceInput,     \* history: the last primary action (accepted or not) and the tick time since
    log,            \* the subscriber invocations of the last operation, in order
    last            \* the last operation: its name, arguments, result and the state before it

vars == <<inventory, skillPoints, damageBonus, listeners, targets, disposed,
          position, mobs, fireCooldown, velocityY, sinceInput, log, last>>

(***************************************************************************)
(* The objects as one record, so that a method is an operator from record  *)
(* to record and a method that calls other methods is their composition.   *)
(***************************************************************************)
World ==
    [inventory |-> inventory, skillPoints |-> skillPoints, damageBonus |-> damageBonus,
     listeners |-> listeners, targets |-> targets, disposed |-> disposed, log |-> << >>]

\* Map.set(k, v)
MapSet(f, k, v) == [x \in DOMAIN f \cup {k} |-> IF x = k THEN v ELSE f[x]]

\* Map.delete(k)
MapDelete(f, k) == [x \in DOMAIN f \ {k} |-> f[x]]

(***************************************************************************)
(* GameState                                                               *)
(***************************************************************************)
\* getResource: inventory.get(name) || 0
getResource(inv, name) == IF name \in DOMAIN inv THEN inv[name] ELSE 0

\* mutant: the subscribers are invoked last registered first
notifyReversed(w) ==
    CHOOSE after \in {[v EXCEPT !.log = @ \o [i \in 1..Len(v.listeners) |->
                        [cb |-> v.listeners[Len(v.listeners) + 1 - i],
                         inventory |-> v.inventory,
                         skillPoints |-> v.skillPoints, damageBonus |-> v.damageBonus]]] :
                     v \in {w}} : TRUE

\* notify: listeners.forEach(cb => cb()); each invocation is logged with the
\* economy the subscriber can observe at that moment (v is w, evaluated once)
notify(w) ==
    CHOOSE after \in {[v EXCEPT !.log = @ \o [i \in 1..Len(v.listeners) |->
                        [cb |-> v.listeners[i], inventory |-> v.inventory,
                         skillPoints |-> v.skillPoints, damageBonus |-> v.damageBonus]]] :
                     v \in {w}} : TRUE

addResource(w, name, amount) ==
    notify([w EXCEPT !.inventory = MapSet(@, name, getResource(@, name) + amount)])

\* mutant: the verify loop looks at the first listed item only
UndersuppliedFirstOnly(inv, cost) ==
    Len(cost) > 0 /\ getResource(inv, cost[1][1]) < cost[1][2]

\* mutant: the verify loop refuses an item held in exactly the needed amount
UndersuppliedOffByOne(inv, cost) ==
    \E i \in 1..Len(cost) : getResource(inv, cost[i][1]) <= cost[i][2]

\* the verify loop of spendResources: some listed item is undersupplied
Undersupplied(inv, cost) ==
    \E i \in 1..Len(cost) : getResource(inv, cost[i][1]) < cost[i][2]

\* the spend loop of spendResources, entry by entry from entry i
\* mutant: an item whose count has come down to 0 loses its entry
RECURSIVE SpendFromPruning(_, _, _)
SpendFromPruning(inv, cost, i) ==
    IF i > Len(cost) THEN inv
    ELSE LET left == getResource(inv, cost[i][1]) - cost[i][2]
         IN  SpendFromPruning(
                IF left = 0 THEN [k \in DOMAIN inv \ {cost[i][1]} |-> inv[k]]
                ELSE MapSet(inv, cost[i][1], left),
                cost, i + 1)

RECURSIVE SpendFrom(_, _, _)
SpendFrom(inv, cost, i) ==
    IF i > Len(cost) THEN inv
    ELSE SpendFrom(MapSet(inv, cost[i][1], getResource(inv, cost[i][1]) - cost[i][2]),
                   cost, i + 1)

\* mutant: one loop that checks and deducts item by item, so that a refusal
\* keeps the deductions made before it
RECURSIVE SpendEager(_, _, _)
SpendEager(w, cost, i) ==
    IF i > Len(cost) THEN [w |-> notify(w), ret |-> TRUE]
    ELSE IF getResource(w.inventory, cost[i][1]) < cost[i][2] THEN [w |-> w, ret |-> FALSE]
    ELSE SpendEager([w EXCEPT !.inventory =
                        MapSet(@, cost[i][1], getResource(@, cost[i][1]) - cost[i][2])],
                    cost, i + 1)

spendResourcesEager(w, cost) == SpendEager(w, cost, 1)

spendResources(w, cost) ==
    IF Undersupplied(w.inventory, cost)
    THEN [w |-> w, ret |-> FALSE]
    ELSE [w |-> notify([w EXCEPT !.inventory = SpendFrom(@, cost, 1)]), ret |-> TRUE]

addSkillPoints(w, amount) == notify([w EXCEPT !.skillPoints = @ + amount])

\* mutant: a balance equal to the amount is refused
spendSkillPointsStrict(w, amount) ==
    IF w.skillPoints <= amount
    THEN [w |-> w, ret |-> FALSE]
    ELSE [w |-> notify([w EXCEPT !.skillPoints = @ - amount]), ret |-> TRUE]

spendSkillPoints(w, amount) ==
    IF w.skillPoints < amount
    THEN [w |-> w, ret |-> FALSE]
    ELSE [w |-> notify([w EXCEPT !.skillPoints = @ - amount]), ret |-> TRUE]

\* mutant: the amount is added to every category
addDamageBonusAll(w, category, amount) ==
    notify([w EXCEPT !.damageBonus = [c \in DOMAIN @ |-> @[c] + amount]])

addDamageBonus(w, category, amount) ==
    notify([w EXCEPT !.damageBonus[category] = @ + amount])

\* getDamageBonus: damageBonus[category] || 0
getDamageBonus(w, category) ==
    IF category \in DOMAIN w.damageBonus THEN w.damageBonus[category] ELSE 0

\* onChange: listeners.push(cb)
onChange(w, cb) == [w EXCEPT !.listeners = Append(@, cb)]

\* mutant: the unsubscribe drops the subscriber registered first, whichever it is
offChangeShift(w, cb) == [w EXCEPT !.listeners = Tail(@)]

\* the function onChange returns: listeners = listeners.filter(l => l !== cb)
offChange(w, cb) == [w EXCEPT !.listeners = SelectSeq(@, LAMBDA l : l # cb)]

\* mutant: the entries are deposited in one go, with one notification at the end
AddFromBatched(w, entries, i) ==
    IF i > Len(entries) THEN w
    ELSE notify([w EXCEPT !.inventory =
            [k \in DOMAIN @ \cup {entries[j][1] : j \in i..Len(entries)} |->
                getResource(@, k)
                    + (IF \E j \in i..Len(entries) : entries[j][1] = k
                       THEN entries[CHOOSE j \in i..Len(entries) : entries[j][1] = k][2]
                       ELSE 0)]])

\* craft (crafting.ts): spendResources(recipe.cost), then addResource per output
RECURSIVE AddFrom(_, _, _)
AddFrom(w, entries, i) ==
    IF i > Len(entries) THEN w
    ELSE AddFrom(addResource(w, entries[i][1], entries[i][2]), entries, i + 1)

\* mutant: the outputs are added whether or not the spend went through
craftUnchecked(w, recipe) ==
    LET spent == spendResources(w, recipe.cost)
    IN  [w |-> AddFrom(spent.w, recipe.output, 1), ret |-> spent.ret]

craft(w, recipe) ==
    LET spent == spendResources(w, recipe.cost)
    IN  IF ~spent.ret THEN [w |-> spent.w, ret |-> FALSE]
        ELSE [w |-> AddFrom(spent.w, recipe.output, 1), ret |-> TRUE]

(***************************************************************************)
(* InteractionSystem                                                       *)
(***************************************************************************)
\* mutant: a mesh that has a record keeps it
registerKeepExisting(w, mesh, config) ==
    IF mesh \in DOMAIN w.targets THEN w
    ELSE [w EXCEPT !.targets = MapSet(@, mesh,
            [hp |-> config.hp * 10, kind |-> config.kind,
             resourceType |-> config.resourceType,
             reward |-> config.reward, skillPoints |-> config.skillPoints])]

\* register: targets.set(mesh.uniqueId, config); hp is stored in tenths
register(w, mesh, config) ==
    [w EXCEPT !.targets = MapSet(@, mesh,
        [hp |-> config.hp * 10, kind |-> config.kind, resourceType |-> config.resourceType,
         reward |-> config.reward, skillPoints |-> config.skillPoints])]

\* unregister: InteractionSystem declares register, handleHit and getDamage and
\* no unregister, so the call is a TypeError that leaves every object as it was
unregister(w, mesh) == w

\* mutant: the base damage is left out of the sum
getDamageBonusOnly(w, baseDamage, state, overrideCategory) ==
    LET category ==
            IF overrideCategory # None THEN Get(overrideCategory)
            ELSE IF state.resourceType # None THEN Get(state.resourceType)
            ELSE IF state.kind = "mob" THEN "mob"
            ELSE IF state.kind = "animal" THEN "animal"
            ELSE "generic"
    IN  getDamageBonus(w, category) * 10

\* mutant: a resource takes the base damage in full
getDamageUnsoftened(w, baseDamage, state, overrideCategory) ==
    LET category ==
            IF overrideCategory # None THEN Get(overrideCategory)
            ELSE IF state.resourceType # None THEN Get(state.resourceType)
            ELSE IF state.kind = "mob" THEN "mob"
            ELSE IF state.kind = "animal" THEN "animal"
            ELSE "generic"
    IN  baseDamage * 10 + getDamageBonus(w, category) * 10

\* getDamage, in tenths: baseDamage * 0.7 + bonus for a resource, baseDamage + bonus otherwise
getDamage(w, baseDamage, state, overrideCategory) ==
    LET category ==
            IF overrideCategory # None THEN Get(overrideCategory)
            ELSE IF state.resourceType # None THEN Get(state.resourceType)
            ELSE IF state.kind = "mob" THEN "mob"
            ELSE IF state.kind = "animal" THEN "animal"
            ELSE "generic"
        bonus == getDamageBonus(w, category)
    IN  IF state.kind = "resource"
        THEN baseDamage * 7 + bonus * 10
        ELSE baseDamage * 10 + bonus * 10

\* mesh.dispose(): the scene destroys the mesh; the call is logged with the
\* economy as it stands at that moment
dispose(w, mesh) ==
    [w EXCEPT !.disposed = @ \cup {mesh},
              !.log = Append(@, [cb |-> "dispose", inventory |-> w.inventory,
                                 skillPoints |-> w.skillPoints,
                                 damageBonus |-> w.damageBonus])]

\* mutant: the death branch leaves the record in the registry
dieKeepRecord(w, mesh, state) ==
    LET gone == [dispose(w, mesh) EXCEPT !.targets = MapSet(@, mesh, state)]
        paid == IF state.reward # None THEN AddFrom(gone, Get(state.reward), 1) ELSE gone
    IN  IF state.skillPoints # None /\ Get(state.skillPoints) # 0
        THEN addSkillPoints(paid, Get(state.skillPoints))
        ELSE paid

\* mutant: the deposits are made first, then the mesh is disposed and deleted
dieDepositFirst(w, mesh, state) ==
    LET paid == IF state.reward # None THEN AddFrom(w, Get(state.reward), 1) ELSE w
        granted == IF state.skillPoints # None /\ Get(state.skillPoints) # 0
                   THEN addSkillPoints(paid, Get(state.skillPoints))
                   ELSE paid
    IN  [dispose(granted, mesh) EXCEPT !.targets = MapDelete(@, mesh)]

\* the death branch of handleHit: dispose, delete, then the deposits
die(w, mesh, state) ==
    LET gone == [dispose(w, mesh) EXCEPT !.targets = MapDelete(@, mesh)]
        paid == IF state.reward # None THEN AddFrom(gone, Get(state.reward), 1) ELSE gone
    IN  IF state.skillPoints # None /\ Get(state.skillPoints) # 0
        THEN addSkillPoints(paid, Get(state.skillPoints))
        ELSE paid

\* mutant: the records share one state object, so a surviving hit lowers them all
handleHitShared(w, mesh, baseDamage, overrideCategory) ==
    IF mesh \notin DOMAIN w.targets THEN w
    ELSE LET state == w.targets[mesh]
             damage == getDamage(w, baseDamage, state, overrideCategory)
             hp == state.hp - damage
         IN  IF hp <= 0
             THEN die(w, mesh, [state EXCEPT !.hp = hp])
             ELSE [w EXCEPT !.targets =
                        [m \in DOMAIN @ |-> [@[m] EXCEPT !.hp = @ - damage]]]

\* mutant: death is tested with hp < 0
handleHitStrict(w, mesh, baseDamage, overrideCategory) ==
    IF mesh \notin DOMAIN w.targets THEN w
    ELSE LET state == w.targets[mesh]
             hp == state.hp - getDamage(w, baseDamage, state, overrideCategory)
         IN  IF hp < 0
             THEN die(w, mesh, [state EXCEPT !.hp = hp])
             ELSE [w EXCEPT !.targets = MapSet(@, mesh, [state EXCEPT !.hp = hp])]

\* mutant: the mesh is disposed before the registry is consulted
handleHitDisposeFirst(w, mesh, baseDamage, overrideCategory) ==
    IF mesh \notin DOMAIN w.targets THEN [w EXCEPT !.disposed = @ \cup {mesh}]
    ELSE LET state == w.targets[mesh]
             hp == state.hp - getDamage(w, baseDamage, state, overrideCategory)
         IN  IF hp <= 0
             THEN die(w, mesh, [state EXCEPT !.hp = hp])
             ELSE [w EXCEPT !.targets = MapSet(@, mesh, [state EXCEPT !.hp = hp])]

handleHit(w, mesh, baseDamage, overrideCategory) ==
    IF mesh \notin DOMAIN w.targets THEN w
    ELSE LET state == w.targets[mesh]
             hp == state.hp - getDamage(w, baseDamage, state, overrideCategory)
         IN  IF hp <= 0
             THEN die(w, mesh, [state EXCEPT !.hp = hp])
             ELSE [w EXCEPT !.targets = MapSet(@, mesh, [state EXCEPT !.hp = hp])]

(***************************************************************************)
(* A subscriber that calls back into the registry: the methods again, with  *)
(* forEach running each callback before the next one is called              *)
(***************************************************************************)
\* the body of the subscriber "hitAgain": handleHit(mesh, baseDamage); any other
\* subscriber only reads
subscriberHit(w, cb, mesh, baseDamage) ==
    IF cb = "hitAgain" THEN handleHit(w, mesh, baseDamage, None) ELSE w

\* listeners.forEach(cb => cb()) from the i-th listener on
RECURSIVE invoke(_, _, _, _)
invoke(w, i, mesh, baseDamage) ==
    IF i > Len(w.listeners) THEN w
    ELSE LET called == [w EXCEPT !.log = Append(@,
                            [cb |-> w.listeners[i], inventory |-> w.inventory,
                             skillPoints |-> w.skillPoints, damageBonus |-> w.damageBonus])]
         IN  invoke(subscriberHit(called, w.listeners[i], mesh, baseDamage),
                    i + 1, mesh, baseDamage)

addResourceReentrant(w, name, amount, mesh, baseDamage) ==
    invoke([w EXCEPT !.inventory = MapSet(@, name, getResource(@, name) + amount)],
           1, mesh, baseDamage)

addSkillPointsReentrant(w, amount, mesh, baseDamage) ==
    invoke([w EXCEPT !.skillPoints = @ + amount], 1, mesh, baseDamage)

RECURSIVE AddFromReentrant(_, _, _, _, _)
AddFromReentrant(w, entries, i, mesh, baseDamage) ==
    IF i > Len(entries) THEN w
    ELSE AddFromReentrant(
            addResourceReentrant(w, entries[i][1], entries[i][2], mesh, baseDamage),
            entries, i + 1, mesh, baseDamage)

\* a death branch that deposits first and deletes the record afterwards
dieReentrantDepositFirst(w, mesh, state, baseDamage) ==
    LET paid == IF state.reward # None
                THEN AddFromReentrant(w, Get(state.reward), 1, mesh, baseDamage) ELSE w
        granted == IF state.skillPoints # None /\ Get(state.skillPoints) # 0
                   THEN addSkillPointsReentrant(paid, Get(state.skillPoints), mesh, baseDamage)
                   ELSE paid
    IN  [dispose(granted, mesh) EXCEPT !.targets = MapDelete(@, mesh)]

\* the death branch of handleHit: dispose, delete, then the deposits
dieReentrant(w, mesh, state, baseDamage) ==
    LET gone == [dispose(w, mesh) EXCEPT !.targets = MapDelete(@, mesh)]
        paid == IF state.reward # None
                THEN AddFromReentrant(gone, Get(state.reward), 1, mesh, baseDamage)
                ELSE gone
    IN  IF state.skillPoints # None /\ Get(state.skillPoints) # 0
        THEN addSkillPointsReentrant(paid, Get(state.skillPoints), mesh, baseDamage)
        ELSE paid

\* handleHit: state.hp -= damage writes into the record of the Map, then the
\* branch on state.hp <= 0
handleHitReentrant(w, mesh, baseDamage) ==
    IF mesh \notin DOMAIN w.targets THEN w
    ELSE LET state == w.targets[mesh]
             hp == state.hp - getDamage(w, baseDamage, state, None)
             hit == [w EXCEPT !.targets = MapSet(@, mesh, [state EXCEPT !.hp = hp])]
         IN  IF hp <= 0
             THEN dieReentrant(hit, mesh, [state EXCEPT !.hp = hp], baseDamage)
             ELSE hit

(***************************************************************************)
(* The earlier revision of the tools and of the registry, kept among the    *)
(* sources: a registry record is { hp, type }, the damage comes from a table *)
(* keyed by the tool, and a tool's onHit disposes the meshes it is made for  *)
(***************************************************************************)
ToolTypes == {"Sword", "Crossbow", "Axe", "Pickaxe"}

\* the names createScene gives the meshes: "tree" + i and "rock" + i
MeshNames == [m1 |-> "tree", m2 |-> "rock"]

\* register(mesh, type, hp) of the earlier InteractionSystem
registerResource(w, mesh, type, hp) ==
    [w EXCEPT !.targets = MapSet(@, mesh, [hp |-> hp, type |-> type])]

\* getDamage(tool, type) of the earlier InteractionSystem
getToolDamage(tool, type) ==
    IF type = "tree"
    THEN (IF tool = "Axe" THEN 25 ELSE IF tool = "Sword" THEN 5 ELSE 2)
    ELSE IF type = "rock"
    THEN (IF tool = "Pickaxe" THEN 25 ELSE IF tool = "Sword" THEN 3 ELSE 2)
    ELSE 5

\* handleHit(mesh, tool) of the earlier InteractionSystem
handleToolHit(w, mesh, tool) ==
    IF mesh \notin DOMAIN w.targets THEN w
    ELSE LET state == w.targets[mesh]
             hp == state.hp - getToolDamage(tool, state.type)
         IN  IF hp <= 0
             THEN [dispose(w, mesh) EXCEPT !.targets = MapDelete(@, mesh)]
             ELSE [w EXCEPT !.targets = MapSet(@, mesh, [state EXCEPT !.hp = hp])]

\* onHit of the four tools: if (mesh.name.includes(...)) mesh.dispose()
onHit(w, tool, mesh) ==
    LET word == IF tool = "Sword" THEN "enemy"
                ELSE IF tool = "Axe" THEN "tree"
                ELSE IF tool = "Pickaxe" THEN "rock"
                ELSE "none"
    IN  IF MeshNames[mesh] = word THEN dispose(w, mesh) ELSE w

\* Tool.action of the earlier tools: onHit, then handleHit with the tool's type
toolAction(w, tool, target) ==
    IF target = None THEN w
    ELSE handleToolHit(onHit(w, tool, Get(target)), Get(target), tool)

(***************************************************************************)
(* MobManager                                                              *)
(***************************************************************************)
\* terrainHalfSize = terrainSize / 2 - 8, in thousandths
terrainHalfSize == TerrainSize * 500 - 8000

Min(a, b) == IF a < b THEN a ELSE b
Max(a, b) == IF a > b THEN a ELSE b

\* Math.min(terrainHalfSize, Math.max(-terrainHalfSize, c))
clamp(c) == Min(terrainHalfSize, Max(-terrainHalfSize, c))

\* the record spawn pushes; dir and changeTimer are the random draws
newMob(mesh, config, dir, timer) ==
    [mesh |-> mesh, dir |-> dir, speed |-> config.speed, changeTimer |-> timer,
     kind |-> config.kind]

\* the config spawn hands to register
mobTarget(config) ==
    [kind |-> config.kind, hp |-> config.hp, resourceType |-> None,
     reward |-> Some(config.reward), skillPoints |-> Some(config.skillPoints)]

\* a timer part that turns only when the timer has gone below 0
retargetBelowZero(mob, delta, dir, timer) ==
    LET t == mob.changeTimer - delta
    IN  IF t < 0 THEN [mob EXCEPT !.dir = dir, !.changeTimer = timer]
        ELSE [mob EXCEPT !.changeTimer = t]

\* the timer part of the loop body of update for one mob
retarget(mob, delta, dir, timer) ==
    LET t == mob.changeTimer - delta
    IN  IF t <= 0 THEN [mob EXCEPT !.dir = dir, !.changeTimer = timer]
        ELSE [mob EXCEPT !.changeTimer = t]

\* move = dir.scale(speed * delta)
displacement(mob, delta) ==
    <<mob.dir[1] * mob.speed * delta, mob.dir[2] * mob.speed * delta>>

\* mutant: only the x axis is clamped
movedClampX(pos, move, pushOut) ==
    <<clamp(pos[1] + move[1] + pushOut[1]), pos[2] + move[2] + pushOut[2]>>

\* the position update of the loop body: moveWithCollisions(move) leaves the mesh
\* at pos + move + pushOut, then both axes are clamped
moved(pos, move, pushOut) ==
    <<clamp(pos[1] + move[1] + pushOut[1]), clamp(pos[2] + move[2] + pushOut[2])>>

(***************************************************************************)
(* Player                                                                  *)
(***************************************************************************)
\* a decay with no floor at 0
decayUnclamped(cooldown, delta) == cooldown - delta

\* this.fireCooldown = Math.max(0, this.fireCooldown - delta)
decay(cooldown, delta) == Max(0, cooldown - delta)

\* a vertical part whose jump does not ask the ground probe
verticalVelocityAirborne(currentY, jump, grounded) ==
    LET jumped == IF jump /\ currentY < 4 /\ currentY > -4
                  THEN jumpStrength ELSE currentY
    IN  IF grounded /\ ~jump THEN 0 ELSE jumped

\* the vertical part of update: targetVel.y = currentVel.y, so the Lerp leaves it
verticalVelocity(currentY, jump, grounded) ==
    LET jumped == IF jump /\ grounded /\ currentY < 4 /\ currentY > -4
                  THEN jumpStrength ELSE currentY
    IN  IF grounded /\ ~jump THEN 0 ELSE jumped

\* mutant: the cooldown is not consulted
tryShootUngated(w, cooldown, target) ==
    [w |-> IF target # None THEN handleHit(w, Get(target), bulletDamage, None) ELSE w,
     fireCooldown |-> fireRate, fired |-> TRUE]

\* tryShoot: nothing while the cooldown runs; else the cooldown is set to fireRate,
\* the ray is cast, and the mesh it picks, if any, is hit with bulletDamage
tryShoot(w, cooldown, target) ==
    IF cooldown > 0 THEN [w |-> w, fireCooldown |-> cooldown, fired |-> FALSE]
    ELSE [w |-> IF target # None THEN handleHit(w, Get(target), bulletDamage, None) ELSE w,
          fireCooldown |-> fireRate, fired |-> TRUE]

\* Tool.action of a tool built with the InteractionSystem: target is what the ray
\* from the screen centre picks; onHit only writes to the console
action(w, target) ==
    IF target # None THEN handleHit(w, Get(target), meleeDamage, None) ELSE w

(***************************************************************************)
(* State machine                                                           *)
(***************************************************************************)
Init ==
    /\ inventory = << >>
    /\ skillPoints = 0
    /\ damageBonus = [c \in Categories |-> 0]
    /\ listeners = << >>
    /\ targets = << >>
    /\ disposed = {}
    /\ position = << >>
    /\ mobs = << >>
    /\ fireCooldown = 0
    /\ velocityY = 0
    /\ sinceInput = None
    /\ log = << >>
    /\ last = [op |-> "init"]

\* the counters a step may not push past the bounds of the model
Bounded(w) ==
    /\ \A k \in DOMAIN w.inventory : w.inventory[k] <= MaxCount
    /\ w.skillPoints <= MaxSkill
    /\ \A c \in DOMAIN w.damageBonus : w.damageBonus[c] <= MaxBonus

\* the objects after a method has run, and the record of the call
Commit(w, call) ==
    /\ Bounded(w)
    /\ inventory' = w.inventory
    /\ skillPoints' = w.skillPoints
    /\ damageBonus' = w.damageBonus
    /\ listeners' = w.listeners
    /\ targets' = w.targets
    /\ disposed' = w.disposed
    /\ log' = w.log
    /\ last' = call

AddResource(name, amount) ==
    \E w \in {addResource(World, name, amount)} :
        /\ Commit(w, [op |-> "addResource", name |-> name, amount |-> amount, pre |-> World])
        /\ UNCHANGED <<position, mobs, fireCooldown, velocityY, sinceInput>>

SpendResources(cost) ==
    \E r \in {spendResources(World, cost)} :
        /\ Commit(r.w, [op |-> "spendResources", cost |-> cost, ret |-> r.ret, pre |-> World])
        /\ UNCHANGED <<position, mobs, fireCooldown, velocityY, sinceInput>>

AddSkillPoints(amount) ==
    \E w \in {addSkillPoints(World, amount)} :
        /\ Commit(w, [op |-> "addSkillPoints", amount |-> amount, pre |-> World])
        /\ UNCHANGED <<position, mobs, fireCooldown, velocityY, sinceInput>>

SpendSkillPoints(amount) ==
    \E r \in {spendSkillPoints(World, amount)} :
        /\ Commit(r.w, [op |-> "spendSkillPoints", amount |-> amount, ret |-> r.ret,
                        pre |-> World])
        /\ UNCHANGED <<position, mobs, fireCooldown, velocityY, sinceInput>>

AddDamageBonus(category, amount) ==
    \E w \in {addDamageBonus(World, category, amount)} :
        /\ Commit(w, [op |-> "addDamageBonus", category |-> category, amount |-> amount,
                      pre |-> World])
        /\ UNCHANGED <<position, mobs, fireCooldown, velocityY, sinceInput>>

OnChange(cb) ==
    /\ Len(listeners) < Cardinality(Callbacks)
    /\ \E w \in {onChange(World, cb)} :
        /\ Commit(w, [op |-> "onChange", cb |-> cb, pre |-> World])
        /\ UNCHANGED <<position, mobs, fireCooldown, velocityY, sinceInput>>

OffChange(cb) ==
    /\ cb \in {listeners[i] : i \in 1..Len(listeners)}
    /\ \E w \in {offChange(World, cb)} :
        /\ Commit(w, [op |-> "offChange", cb |-> cb, pre |-> World])
        /\ UNCHANGED <<position, mobs, fireCooldown, velocityY, sinceInput>>

Craft(recipe) ==
    \E r \in {craft(World, recipe)} :
        /\ Commit(r.w, [op |-> "craft", recipe |-> recipe, ret |-> r.ret, pre |-> World])
        /\ UNCHANGED <<position, mobs, fireCooldown, velocityY, sinceInput>>

\* register is handed a mesh of the scene
Register(mesh, config) ==
    /\ mesh \notin disposed
    /\ \E w \in {register(World, mesh, config)} :
        /\ Commit(w, [op |-> "register", mesh |-> mesh, config |-> config, pre |-> World])
        /\ UNCHANGED <<position, mobs, fireCooldown, velocityY, sinceInput>>

HandleHit(mesh, baseDamage, overrideCategory) ==
    \E w \in {handleHit(World, mesh, baseDamage, overrideCategory)} :
        /\ Commit(w, [op |-> "handleHit", mesh |-> mesh, baseDamage |-> baseDamage,
                      overrideCategory |-> overrideCategory, pre |-> World])
        /\ UNCHANGED <<position, mobs, fireCooldown, velocityY, sinceInput>>

Unregister(mesh) ==
    \E w \in {unregister(World, mesh)} :
        /\ Commit(w, [op |-> "unregister", mesh |-> mesh, pre |-> World])
        /\ UNCHANGED <<position, mobs, fireCooldown, velocityY, sinceInput>>

\* |x| <= terrainHalfSize and |z| <= terrainHalfSize
InBounds(pos) ==
    /\ pos[1] <= terrainHalfSize /\ pos[1] >= 0 - terrainHalfSize
    /\ pos[2] <= terrainHalfSize /\ pos[2] >= 0 - terrainHalfSize

\* a spawn that pushes the mob and leaves the register call out
SpawnUnregistered(mesh, config, at, coords, dir, timer) ==
    /\ mesh \notin DOMAIN position
    /\ mesh \notin disposed
    /\ \E w \in {World} :
        Commit(w, [op |-> "spawn", mesh |-> mesh, explicit |-> at # None])
    /\ position' = MapSet(position, mesh, IF at # None THEN Get(at) ELSE coords)
    /\ mobs' = Append(mobs, newMob(mesh, config, dir, timer))
    /\ UNCHANGED <<fireCooldown, velocityY, sinceInput>>

\* spawn: the mesh is placed at the position handed in, or at a random one of
\* randomCoord; then register, then the push. coords, dir and timer are the draws
Spawn(mesh, config, at, coords, dir, timer) ==
    /\ mesh \notin DOMAIN position
    /\ mesh \notin disposed
    /\ \E w \in {register(World, mesh, mobTarget(config))} :
        Commit(w, [op |-> "spawn", mesh |-> mesh, explicit |-> at # None])
    /\ position' = MapSet(position, mesh, IF at # None THEN Get(at) ELSE coords)
    /\ mobs' = Append(mobs, newMob(mesh, config, dir, timer))
    /\ UNCHANGED <<fireCooldown, velocityY, sinceInput>>

\* this.mobs.filter((mob) => !mob.mesh.isDisposed())
prune(active, gone) == SelectSeq(active, LAMBDA mob : mob.mesh \notin gone)

\* what the two callbacks of onBeforeRenderObservable read and write
FrameState ==
    [mobs |-> mobs, position |-> position, disposed |-> disposed,
     fireCooldown |-> fireCooldown, velocityY |-> velocityY]

\* MobManager.update on f: the disposed are filtered out, then every mob left
\* turns, moves and is clamped; draws[mesh] holds the random dir and timer and the
\* push-out of the collision for that mob
mobsUpdate(f, delta, draws) ==
    LET alive == prune(f.mobs, f.disposed)
        turned == [i \in 1..Len(alive) |->
                    retarget(alive[i], delta, draws[alive[i].mesh].dir,
                             draws[alive[i].mesh].timer)]
    IN  [f EXCEPT
            !.mobs = turned,
            !.position = [mesh \in {turned[i].mesh : i \in 1..Len(turned)} |->
                LET mob == turned[CHOOSE i \in 1..Len(turned) : turned[i].mesh = mesh]
                IN  moved(f.position[mesh], displacement(mob, delta), draws[mesh].pushOut)]]

\* a Player.update whose ground probe takes any mesh below the player, who
\* stands at the origin, for ground
playerUpdateAnyMesh(f, delta, jump, grounded, currentY) ==
    LET probe == grounded \/ \E mesh \in DOMAIN f.position : f.position[mesh] = <<0, 0>>
    IN  [f EXCEPT !.fireCooldown = decay(@, delta),
                  !.velocityY = verticalVelocity(currentY, jump, probe)]

\* Player.update on f: the cooldown decays and the vertical velocity is set; jump
\* and grounded are the space key and the ground probe, currentY is the vertical
\* velocity the physics body reports
playerUpdate(f, delta, jump, grounded, currentY) ==
    [f EXCEPT !.fireCooldown = decay(@, delta),
              !.velocityY = verticalVelocity(currentY, jump, grounded)]

\* an update that turns and moves every mob of the list, and filters afterwards;
\* a disposed mob keeps its direction and is not pushed out
MobUpdatePruneLast(delta, draws) ==
    LET draw(mob) == IF mob.mesh \in DOMAIN draws THEN draws[mob.mesh]
                     ELSE [dir |-> mob.dir, timer |-> mob.changeTimer, pushOut |-> <<0, 0>>]
        turned == [i \in 1..Len(mobs) |->
                    retarget(mobs[i], delta, draw(mobs[i]).dir, draw(mobs[i]).timer)]
    IN  /\ mobs' = prune(turned, disposed)
        /\ position' = [mesh \in {turned[i].mesh : i \in 1..Len(turned)} |->
                LET mob == turned[CHOOSE i \in 1..Len(turned) : turned[i].mesh = mesh]
                IN  moved(position[mesh], displacement(mob, delta), draw(mob).pushOut)]
        /\ last' = [op |-> "update", delta |-> delta,
                    strayed |-> {mesh \in DOMAIN position : ~InBounds(position[mesh])},
                    listed |-> {mobs[i].mesh : i \in 1..Len(mobs)},
                    stepped |-> {turned[i].mesh : i \in 1..Len(turned)}]
        /\ log' = << >>
        /\ UNCHANGED <<inventory, skillPoints, damageBonus, listeners, targets, disposed,
                       fireCooldown, velocityY, sinceInput>>

\* update: the disposed are filtered out, then every mob left turns, moves and is
\* clamped; draws[mesh] holds the random dir and timer and the push-out of the
\* collision for that mob. last.listed holds the meshes of the list the update found, last.stepped
\* the meshes whose timer it decreased and for which it asked for a move
MobUpdate(delta, draws) ==
    \E f \in {mobsUpdate(FrameState, delta, draws)} :
        /\ mobs' = f.mobs
        /\ position' = f.position
        /\ last' = [op |-> "update", delta |-> delta,
                    strayed |-> {mesh \in DOMAIN position : ~InBounds(position[mesh])},
                    listed |-> {mobs[i].mesh : i \in 1..Len(mobs)},
                    stepped |-> {f.mobs[i].mesh : i \in 1..Len(f.mobs)}]
        /\ log' = << >>
        /\ UNCHANGED <<inventory, skillPoints, damageBonus, listeners, targets, disposed,
                       fireCooldown, velocityY, sinceInput>>

\* sinceInput is history: whether the latest left click cast a ray, and the tick
\* time that has passed since, counted up to fireRate
elapse(since, delta) ==
    IF since = None THEN None
    ELSE Some([Get(since) EXCEPT !.elapsed = Min(@ + delta, fireRate)])

\* a left click with the pointer locked: tryShoot; target is what the ray picks
TryShoot(target) ==
    \E r \in {tryShoot(World, fireCooldown, target)} :
        /\ Commit(r.w, [op |-> "tryShoot", target |-> target, fired |-> r.fired,
                        before |-> sinceInput, pre |-> World])
        /\ fireCooldown' = r.fireCooldown
        /\ sinceInput' = Some([fired |-> r.fired, elapsed |-> 0])
        /\ UNCHANGED <<position, mobs, velocityY>>

\* a hit while the subscriber "hitAgain" is set to hit the same mesh with the same
\* base damage
HandleHitReentrant(mesh, baseDamage) ==
    \E w \in {handleHitReentrant(World, mesh, baseDamage)} :
        /\ Commit(w, [op |-> "handleHit", mesh |-> mesh, baseDamage |-> baseDamage,
                      overrideCategory |-> None, pre |-> World])
        /\ UNCHANGED <<position, mobs, fireCooldown, velocityY, sinceInput>>

\* scatterProps of the earlier createScene registers a mesh it has just built
RegisterResource(mesh, type, hp) ==
    /\ mesh \notin DOMAIN targets
    /\ mesh \notin disposed
    /\ \E w \in {registerResource(World, mesh, type, hp)} :
        /\ Commit(w, [op |-> "registerResource", mesh |-> mesh, pre |-> World])
        /\ UNCHANGED <<position, mobs, fireCooldown, velocityY, sinceInput>>

\* a primary action with one of the earlier tools; the ray picks a mesh of the scene
EarlierToolAction(tool, target) ==
    \E w \in {toolAction(World, tool, target)} :
        /\ Commit(w, [op |-> "toolAction", tool |-> tool, target |-> target,
                      pre |-> World])
        /\ UNCHANGED <<position, mobs, fireCooldown, velocityY, sinceInput>>

\* a primary action that does nothing while the gun's cooldown runs
ToolActionGated(target) ==
    \E w \in {IF fireCooldown > 0 THEN World ELSE action(World, target)} :
        /\ Commit(w, [op |-> "action", target |-> target, after |-> last.op,
                      pre |-> World])
        /\ UNCHANGED <<position, mobs, fireCooldown, velocityY, sinceInput>>

\* a primary action with a tool in hand; last.after is the call that came before
ToolAction(target) ==
    \E w \in {action(World, target)} :
        /\ Commit(w, [op |-> "action", target |-> target, after |-> last.op,
                      pre |-> World])
        /\ UNCHANGED <<position, mobs, fireCooldown, velocityY, sinceInput>>

\* Player.update: the cooldown decays and the vertical velocity is set; jump and
\* grounded are the space key and the ground probe, currentY is the vertical
\* velocity the physics body reports
PlayerUpdate(delta, jump, grounded, currentY) ==
    \E f \in {playerUpdate(FrameState, delta, jump, grounded, currentY)} :
        /\ fireCooldown' = f.fireCooldown
        /\ velocityY' = f.velocityY
        /\ sinceInput' = elapse(sinceInput, delta)
        /\ last' = [op |-> "playerUpdate", delta |-> delta, jump |-> jump,
                    grounded |-> grounded, currentY |-> currentY, cooldown |-> fireCooldown]
        /\ log' = << >>
        /\ UNCHANGED <<inventory, skillPoints, damageBonus, listeners, targets, disposed,
                       position, mobs>>

\* one frame: scene.render notifies onBeforeRenderObservable, which runs the two
\* update callbacks one after the other with the same getDeltaTime; playerFirst is
\* the order of the two observers. last.other is what the other order gives
Frame(playerFirst, delta, draws, jump, grounded, currentY) ==
    \E pm \in {mobsUpdate(playerUpdate(FrameState, delta, jump, grounded, currentY),
                            delta, draws)},
       mp \in {playerUpdate(mobsUpdate(FrameState, delta, draws),
                              delta, jump, grounded, currentY)} :
        \E f \in {IF playerFirst THEN pm ELSE mp} :
            /\ mobs' = f.mobs
            /\ position' = f.position
            /\ fireCooldown' = f.fireCooldown
            /\ velocityY' = f.velocityY
            /\ sinceInput' = elapse(sinceInput, delta)
            /\ last' = [op |-> "frame", playerFirst |-> playerFirst, delta |-> delta,
                        start |-> FrameState, pre |-> World,
                        other |-> IF playerFirst THEN mp ELSE pm]
            /\ log' = << >>
            /\ UNCHANGED <<inventory, skillPoints, damageBonus, listeners, targets,
                           disposed>>

(***************************************************************************)
(* Inputs                                                                  *)
(***************************************************************************)
Amounts == {1, 2}
Items == {"Wood", "Stone"}

\* Object.entries of a Record<string, number>: keys are distinct, in insertion order
Entries(items, amounts) == {<<i, a>> : i \in items, a \in amounts}
Tables(items, amounts) ==
    {<< >>} \cup {<<e>> : e \in Entries(items, amounts)}
            \cup {<<p[1], p[2]>> : p \in {q \in Entries(items, amounts) \X Entries(items, amounts) :
                                                q[1][1] # q[2][1]}}

(***************************************************************************)
(* The program's tables                                                    *)
(***************************************************************************)
\* recipes[0] and recipes[2] of crafting.ts
Planks == [name |-> "Planks", cost |-> << <<"Wood", 2>> >>, output |-> << <<"Plank", 4>> >>]
Arrows ==
    [name |-> "Arrows", cost |-> << <<"Wood", 1>>, <<"Stone", 1>> >>,
     output |-> << <<"Arrow", 4>> >>]
Recipes == {Planks, Arrows}

\* the configs scatterProps registers
tree ==
    [kind |-> "resource", resourceType |-> Some("wood"), hp |-> 60,
     reward |-> Some(<< <<"Wood", 3>>, <<"Fiber", 1>> >>), skillPoints |-> Some(1)]
leaves ==
    [kind |-> "resource", resourceType |-> Some("wood"), hp |-> 30,
     reward |-> Some(<< <<"Wood", 1>>, <<"Fiber", 1>> >>), skillPoints |-> Some(1)]
rock ==
    [kind |-> "resource", resourceType |-> Some("stone"), hp |-> 80,
     reward |-> Some(<< <<"Stone", 3>> >>), skillPoints |-> Some(1)]

\* the configs spawnCreatures spawns; speed in tenths of a unit per second
Brute ==
    [name |-> "Brute", kind |-> "mob", speed |-> 45, hp |-> 80,
     reward |-> << <<"Hide", 2>>, <<"Meat", 1>> >>, skillPoints |-> 2]
Deer ==
    [name |-> "Deer", kind |-> "animal", speed |-> 25, hp |-> 40,
     reward |-> << <<"Meat", 2>>, <<"Hide", 1>> >>, skillPoints |-> 1]

\* a DamageableState with every optional field left out
bare ==
    [kind |-> "resource", resourceType |-> None, hp |-> 30, reward |-> None,
     skillPoints |-> None]

Meshes == {"m1", "m2"}

(***************************************************************************)
(* The economy with crafting and combat rewards                            *)
(***************************************************************************)
Next ==
    \/ \E name \in Items, amount \in Amounts : AddResource(name, amount)
    \/ \E cost \in Tables(Items, Amounts) : SpendResources(cost)
    \/ \E amount \in Amounts : AddSkillPoints(amount)
    \/ \E amount \in Amounts : SpendSkillPoints(amount)
    \/ \E recipe \in Recipes : Craft(recipe)
    \/ Register("m1", rock)
    \/ HandleHit("m1", bulletDamage, None)

Spec == Init /\ [][Next]_vars

(***************************************************************************)
(* The registry under hits: createScene has built the objects and the      *)
(* crafting panel has subscribed; m1 is a tree and m2 is a deer            *)
(***************************************************************************)
InitGame ==
    /\ inventory = << >>
    /\ skillPoints = 0
    /\ damageBonus = [c \in Categories |-> 0]
    /\ listeners = <<"updateInventory">>
    /\ targets = << >>
    /\ disposed = {}
    /\ position = << >>
    /\ mobs = << >>
    /\ fireCooldown = 0
    /\ velocityY = 0
    /\ sinceInput = None
    /\ log = << >>
    /\ last = [op |-> "init"]

ConfigOf(mesh) == IF mesh = "m1" THEN tree ELSE mobTarget(Deer)

BaseDamages == {20, 25}

NextCombat ==
    \/ \E mesh \in Meshes : Register(mesh, ConfigOf(mesh))
    \/ \E mesh \in Meshes, base \in BaseDamages, category \in {None, Some("wood")} :
            HandleHit(mesh, base, category)
    \/ \E category \in {"wood", "animal"} : AddDamageBonus(category, 1)

SpecCombat == InitGame /\ [][NextCombat]_vars

(***************************************************************************)
(* Repeated hits: each mesh is registered once, and the hits keep coming   *)
(***************************************************************************)
RegisterFresh(mesh, config) == mesh \notin DOMAIN targets /\ Register(mesh, config)

Hit(mesh) ==
    \E base \in BaseDamages, category \in {None, Some("wood")} : HandleHit(mesh, base, category)

NextHits ==
    \/ \E mesh \in Meshes : RegisterFresh(mesh, ConfigOf(mesh))
    \/ \E mesh \in Meshes : Hit(mesh)
    \/ AddDamageBonus("wood", 1)

SpecHits == InitGame /\ [][NextHits]_vars /\ \A mesh \in Meshes : WF_vars(Hit(mesh))

(***************************************************************************)
(* One target of any kind, hit with any base damage, override and bonuses   *)
(***************************************************************************)
Configs == {tree, bare, mobTarget(Brute), mobTarget(Deer)}
Overrides == {None, Some("wood"), Some("mob")}

NextDamage ==
    \/ \E config \in Configs : RegisterFresh("m1", config)
    \/ \E base \in BaseDamages, category \in Overrides : HandleHit("m1", base, category)
    \/ \E category \in Categories : AddDamageBonus(category, 1)

SpecDamage == InitGame /\ [][NextDamage]_vars

(***************************************************************************)
(* Creatures: spawned anywhere, moved and clamped by the ticks, and shot     *)
(***************************************************************************)
\* a frame time, in hundredths of a second, that carries a Deer across half the terrain
Deltas == {terrainHalfSize \div Deer.speed}

\* randomDir along the axes, and 1.5 + Math.random() * 2 at its least
Dirs == {<<1, 0>>, <<-1, 0>>, <<0, 1>>, <<0, -1>>}
Timers == {150}

\* what moveWithCollisions adds to the requested move
PushOuts == {<<0, 0>>, <<0 - terrainHalfSize, terrainHalfSize>>}
Draws == [dir : Dirs, timer : Timers, pushOut : PushOuts]

\* randomCoord: Math.random() * terrainHalfSize * 2 - terrainHalfSize
RandomCoords == {0 - terrainHalfSize, 0}

\* the optional position argument of spawn: left out, inside, outside the terrain
SpawnPositions == {None, Some(<<0, 0>>), Some(<<terrainHalfSize + 1000, 0>>)}

NextMobs ==
    \/ \E mesh \in Meshes, at \in SpawnPositions, x \in RandomCoords, z \in RandomCoords,
          dir \in Dirs, timer \in Timers :
            Spawn(mesh, Deer, at, <<x, z>>, dir, timer)
    \/ \E delta \in Deltas :
        \E draws \in [{mobs[i].mesh : i \in 1..Len(mobs)} \ disposed -> Draws] :
            MobUpdate(delta, draws)
    \/ \E mesh \in Meshes : HandleHit(mesh, Deer.hp, None)

SpecMobs == InitGame /\ [][NextMobs]_vars

(***************************************************************************)
(* The player: left clicks and ticks, with a rock in the line of fire      *)
(***************************************************************************)
\* frame times in hundredths of a second: a third and a half of fireRate
PlayerDeltas == {6, 9}

\* vertical velocities of the physics body, in tenths: falling, at rest, inside
\* the 0.4 deadband, on its edge
CurrentYs == {-20, 0, 3, 4}

NextPlayer ==
    \/ RegisterFresh("m1", rock)
    \/ \E target \in {None} \cup {Some(mesh) : mesh \in {"m1"} \ disposed} : TryShoot(target)
    \/ \E delta \in PlayerDeltas, jump \in BOOLEAN, grounded \in BOOLEAN, currentY \in CurrentYs :
            PlayerUpdate(delta, jump, grounded, currentY)

SpecPlayer == InitGame /\ [][NextPlayer]_vars

(***************************************************************************)
(* The registry through its whole interface: records are registered,       *)
(* registered again, hit, and asked to be unregistered                      *)
(***************************************************************************)
NextRegistry ==
    \/ \E mesh \in Meshes, config \in {tree, leaves} : Register(mesh, config)
    \/ \E mesh \in Meshes : HandleHit(mesh, bulletDamage, None)
    \/ \E mesh \in Meshes : Unregister(mesh)

SpecRegistry == InitGame /\ [][NextRegistry]_vars

(***************************************************************************)
(* Every operation that reaches GameState, with bonuses on three categories *)
(***************************************************************************)
NextBonus ==
    \/ \E category \in {"wood", "mob", "generic"}, amount \in Amounts :
            AddDamageBonus(category, amount)
    \/ AddResource("Wood", 2)
    \/ SpendResources(<< <<"Wood", 1>> >>)
    \/ AddSkillPoints(1)
    \/ SpendSkillPoints(1)
    \/ Craft(Planks)
    \/ OnChange("updateInventory")
    \/ OffChange("updateInventory")
    \/ Register("m1", leaves)
    \/ HandleHit("m1", bulletDamage, None)

SpecBonus == Init /\ [][NextBonus]_vars

(***************************************************************************)
(* One deer and its timer: frame times that bring the timer to 0 exactly    *)
(***************************************************************************)
\* frame times in hundredths of a second: a third and a half of the least timer
WanderDeltas == {50, 75}

\* 1.5 + Math.random() * 2, in hundredths: the least and the greatest draw
WanderTimers == {150, 349}

NextWander ==
    \/ \E dir \in Dirs, timer \in WanderTimers :
            Spawn("m1", Deer, Some(<<0, 0>>), <<0, 0>>, dir, timer)
    \/ \E delta \in WanderDeltas :
        \E draws \in [{mobs[i].mesh : i \in 1..Len(mobs)} \ disposed ->
                        [dir : Dirs, timer : WanderTimers, pushOut : {<<0, 0>>}]] :
            MobUpdate(delta, draws)
    \/ HandleHit("m1", Deer.hp, None)

SpecWander == InitGame /\ [][NextWander]_vars

(***************************************************************************)
(* Whole frames: both update callbacks in one step, in either order, with    *)
(* deer that are spawned and shot and a gun that is fired between frames     *)
(***************************************************************************)
\* randomDir to the east and to the west
FrameDirs == {<<1, 0>>, <<-1, 0>>}

NextFrame ==
    \/ \E mesh \in Meshes, dir \in FrameDirs, timer \in Timers :
            Spawn(mesh, Deer, Some(<<0, 0>>), <<0, 0>>, dir, timer)
    \/ \E target \in {None} \cup {Some(mesh) : mesh \in DOMAIN targets} : TryShoot(target)
    \/ \E playerFirst \in BOOLEAN, delta \in Deltas, jump \in BOOLEAN, grounded \in BOOLEAN :
        \E draws \in [{mobs[i].mesh : i \in 1..Len(mobs)} \ disposed ->
                        [dir : FrameDirs, timer : Timers, pushOut : {<<0, 0>>}]] :
            Frame(playerFirst, delta, draws, jump, grounded, -20)

SpecFrame == InitGame /\ [][NextFrame]_vars

(***************************************************************************)
(* A tool and the gun side by side, with a rock in front of the camera      *)
(***************************************************************************)
NextMelee ==
    \/ RegisterFresh("m1", rock)
    \/ \E target \in {None} \cup {Some(mesh) : mesh \in Meshes \ disposed} : ToolAction(target)
    \/ \E target \in {None} \cup {Some(mesh) : mesh \in {"m1"} \ disposed} : TryShoot(target)
    \/ \E delta \in PlayerDeltas, jump \in BOOLEAN : PlayerUpdate(delta, jump, TRUE, 0)

SpecMelee == InitGame /\ [][NextMelee]_vars

(***************************************************************************)
(* The earlier tools at work on a tree and a rock                           *)
(***************************************************************************)
NextTools ==
    \/ RegisterResource("m1", "tree", 60)
    \/ RegisterResource("m2", "rock", 80)
    \/ \E tool \in ToolTypes, target \in {None} \cup {Some(mesh) : mesh \in Meshes \ disposed} :
            EarlierToolAction(tool, target)

SpecTools == InitGame /\ [][NextTools]_vars

(***************************************************************************)
(* Hits with a subscriber that hits back: "hitAgain" has subscribed before   *)
(* the crafting panel                                                        *)
(***************************************************************************)
InitReentrant ==
    /\ inventory = << >>
    /\ skillPoints = 0
    /\ damageBonus = [c \in Categories |-> 0]
    /\ listeners = <<"hitAgain", "updateInventory">>
    /\ targets = << >>
    /\ disposed = {}
    /\ position = << >>
    /\ mobs = << >>
    /\ fireCooldown = 0
    /\ velocityY = 0
    /\ sinceInput = None
    /\ log = << >>
    /\ last = [op |-> "init"]

NextReentrant ==
    \/ \E mesh \in Meshes : Register(mesh, ConfigOf(mesh))
    \/ \E mesh \in Meshes, base \in BaseDamages : HandleHitReentrant(mesh, base)

SpecReentrant == InitReentrant /\ [][NextReentrant]_vars

(***************************************************************************)
(* Compound operations under two subscribers: kills with and without a      *)
(* grant, and the recipes                                                   *)
(***************************************************************************)
\* leaves with a grant of 0
leavesNoGrant == [leaves EXCEPT !.skillPoints = Some(0)]

NextNotify ==
    \/ \E config \in {leaves, leavesNoGrant} : RegisterFresh("m1", config)
    \/ RegisterFresh("m2", bare)
    \/ \E mesh \in Meshes : HandleHit(mesh, bulletDamage, None)
    \/ \E name \in Items : AddResource(name, 1)
    \/ \E recipe \in Recipes : Craft(recipe)
    \/ Len(listeners) < 2 /\ OnChange("updateSkills")

SpecNotify == InitGame /\ [][NextNotify]_vars

(***************************************************************************)
(* The inventory through everything that writes it: deposits, spends with   *)
(* amounts from 0 up, recipes and a kill                                    *)
(***************************************************************************)
NextInventory ==
    \/ \E name \in Items, amount \in Amounts : AddResource(name, amount)
    \/ \E cost \in Tables(Items, {0} \cup Amounts) : SpendResources(cost)
    \/ \E recipe \in Recipes : Craft(recipe)
    \/ RegisterFresh("m1", leaves)
    \/ HandleHit("m1", bulletDamage, None)

SpecInventory == InitGame /\ [][NextInventory]_vars

(***************************************************************************)
(* GameState on its own: every method, with any arguments                  *)
(***************************************************************************)
NextEconomy ==
    \/ \E name \in Items, amount \in Amounts : AddResource(name, amount)
    \/ \E cost \in Tables(Items, Amounts) : SpendResources(cost)
    \/ \E amount \in Amounts : AddSkillPoints(amount)
    \/ \E amount \in Amounts : SpendSkillPoints(amount)
    \/ AddDamageBonus("wood", 1)
    \/ \E cb \in Callbacks : OnChange(cb)
    \/ \E cb \in Callbacks : OffChange(cb)

SpecEconomy == Init /\ [][NextEconomy]_vars

(***************************************************************************)
(* Claims about GameState                                                  *)
(***************************************************************************)
\* what a Map of counts holds for an item: its entry, 0 without one
CountOf(inv, item) == IF item \in DOMAIN inv THEN inv[item] ELSE 0

\* what a cost table needs of an item: its entry, 0 without one
NeededOf(cost, item) ==
    IF \E i \in 1..Len(cost) : cost[i][1] = item
    THEN cost[CHOOSE i \in 1..Len(cost) : cost[i][1] = item][2]
    ELSE 0

\* the items a state and the operation that led to it can mention
Mentioned == DOMAIN inventory \cup DOMAIN last.pre.inventory \cup Items

\* C1 (spend atomicity): when some listed item has inventory[item] < needed,
\* spendResources returns failure, leaves every inventory count, the skill points
\* and the damage bonuses as they were, and invokes no subscriber.
SpendAtomicity ==
    (/\ last.op = "spendResources"
     /\ \E i \in 1..Len(last.cost) :
            CountOf(last.pre.inventory, last.cost[i][1]) < last.cost[i][2])
    => /\ last.ret = FALSE
       /\ inventory = last.pre.inventory
       /\ skillPoints = last.pre.skillPoints
       /\ damageBonus = last.pre.damageBonus
       /\ log = << >>

\* a refused spend whose first item was in supply and whose second was not,
\* with a subscriber registered
SpendAtomicityWitness ==
    /\ last.op = "spendResources"
    /\ Len(last.cost) = 2
    /\ CountOf(last.pre.inventory, last.cost[1][1]) >= last.cost[1][2]
    /\ CountOf(last.pre.inventory, last.cost[2][1]) < last.cost[2][2]
    /\ last.ret = FALSE
    /\ Len(listeners) > 0

\* C2 (spend correctness): when every listed item has inventory[item] >= needed,
\* spendResources returns success, every listed item loses exactly its needed
\* amount and every other item keeps its count.
SpendCorrectness ==
    (/\ last.op = "spendResources"
     /\ \A i \in 1..Len(last.cost) :
            CountOf(last.pre.inventory, last.cost[i][1]) >= last.cost[i][2])
    => /\ last.ret = TRUE
       /\ \A item \in Mentioned :
            CountOf(inventory, item)
                = CountOf(last.pre.inventory, item) - NeededOf(last.cost, item)

\* the example of the specification: {Wood:3, Stone:2} less {Wood:2} is {Wood:1, Stone:2}
SpendCorrectnessWitness ==
    /\ last.op = "spendResources"
    /\ last.cost = << <<"Wood", 2>> >>
    /\ CountOf(last.pre.inventory, "Wood") = 3
    /\ CountOf(last.pre.inventory, "Stone") = 2
    /\ last.ret = TRUE
    /\ CountOf(inventory, "Wood") = 1
    /\ CountOf(inventory, "Stone") = 2

\* C3 (no negative balance): after any sequence of addResource, spendResources,
\* addSkillPoints, spendSkillPoints, craft and handleHit (reward deposit), every
\* inventory count is >= 0 and skillPoints is >= 0.
NonNegative ==
    /\ \A item \in DOMAIN inventory : inventory[item] >= 0
    /\ skillPoints >= 0

\* both balances spent down to exactly 0, after a craft and a kill have paid in
NonNegativeWitness ==
    /\ last.op = "spendSkillPoints"
    /\ last.ret = TRUE
    /\ skillPoints = 0
    /\ "m1" \in disposed
    /\ "Plank" \in DOMAIN inventory
    /\ "Stone" \in DOMAIN inventory
    /\ inventory["Stone"] = 0

(***************************************************************************)
(* Claims about the registry                                               *)
(***************************************************************************)
\* what a config's reward table holds for an item, and its skill point grant
RewardOf(config, item) ==
    IF config.reward = None THEN 0 ELSE NeededOf(Get(config.reward), item)
GrantOf(config) == IF config.skillPoints = None THEN 0 ELSE Get(config.skillPoints)

\* the rewards and the grants of a set of meshes, each counted once
RECURSIVE RewardsOf(_, _)
RewardsOf(meshes, item) ==
    IF meshes = {} THEN 0
    ELSE LET m == CHOOSE x \in meshes : TRUE
         IN  RewardOf(ConfigOf(m), item) + RewardsOf(meshes \ {m}, item)
RECURSIVE GrantsOf(_)
GrantsOf(meshes) ==
    IF meshes = {} THEN 0
    ELSE LET m == CHOOSE x \in meshes : TRUE
         IN  GrantOf(ConfigOf(m)) + GrantsOf(meshes \ {m})

RewardItems == {"Wood", "Fiber", "Meat", "Hide"}

\* the last operation was a handleHit that took its mesh out of the registry
Killed == /\ last.op = "handleHit"
          /\ last.mesh \in DOMAIN last.pre.targets
          /\ last.mesh \notin DOMAIN targets

\* C4 (reward exactly once): over any sequence of handleHit calls, the inventory
\* and the skill points hold the reward table and the grant of every dead mesh
\* exactly once; they are paid in by the call that kills, and a handleHit that
\* does not kill (a later call on the dead mesh among them) pays in nothing.
RewardExactlyOnce ==
    /\ \A item \in RewardItems : CountOf(inventory, item) = RewardsOf(disposed, item)
    /\ skillPoints = GrantsOf(disposed)
    /\ Killed =>
        /\ \A item \in RewardItems :
              CountOf(inventory, item)
                  = CountOf(last.pre.inventory, item) + RewardOf(ConfigOf(last.mesh), item)
        /\ skillPoints = last.pre.skillPoints + GrantOf(ConfigOf(last.mesh))
    /\ (last.op = "handleHit" /\ ~Killed) =>
        /\ inventory = last.pre.inventory
        /\ skillPoints = last.pre.skillPoints

\* a handleHit on a mesh that an earlier handleHit killed, both meshes being dead
RewardExactlyOnceWitness ==
    /\ last.op = "handleHit"
    /\ last.mesh \in last.pre.disposed
    /\ disposed = Meshes
    /\ CountOf(inventory, "Wood") = 3
    /\ CountOf(inventory, "Meat") = 2
    /\ skillPoints = 2

\* C5 (live records only): every mesh in the registry has hitPoints > 0.
RegisteredAlive == \A mesh \in DOMAIN targets : targets[mesh].hp > 0

\* a record that a hit has left alive beside a mesh that a hit has killed
RegisteredAliveWitness ==
    /\ last.op = "handleHit"
    /\ last.mesh \in DOMAIN targets
    /\ targets[last.mesh].hp < last.pre.targets[last.mesh].hp
    /\ disposed # {}

\* C7 (stale handle): handleHit on a mesh that is not in the registry changes
\* nothing: registry, inventory, skill points and damage bonuses are as before,
\* no mesh is disposed and no subscriber is invoked.
StaleHitNoOp ==
    (last.op = "handleHit" /\ last.mesh \notin DOMAIN last.pre.targets)
    => /\ targets = last.pre.targets
       /\ inventory = last.pre.inventory
       /\ skillPoints = last.pre.skillPoints
       /\ damageBonus = last.pre.damageBonus
       /\ disposed = last.pre.disposed
       /\ log = << >>

\* a hit on a mesh that was never registered, while the other mesh is registered
\* and a subscriber is listening
StaleHitNoOpWitness ==
    /\ last.op = "handleHit"
    /\ last.mesh \notin DOMAIN last.pre.targets
    /\ last.mesh \notin last.pre.disposed
    /\ DOMAIN targets # {}
    /\ Len(listeners) > 0

\* the last operation was a handleHit with positive damage on a registered mesh,
\* and it left the mesh out of the registry or with fewer hit points
HitDecreases ==
    (last.op = "handleHit" /\ last.baseDamage > 0 /\ last.mesh \in DOMAIN last.pre.targets)
    => \/ last.mesh \notin DOMAIN targets
       \/ targets[last.mesh].hp < last.pre.targets[last.mesh].hp

\* a handleHit on a mesh outside the registry leaves it outside
AbsentStaysAbsent ==
    (last.op = "handleHit" /\ last.mesh \notin DOMAIN last.pre.targets)
    => last.mesh \notin DOMAIN targets

\* C6 (damage monotonicity): every handleHit with baseDamage > 0 on a registered
\* mesh strictly decreases its hitPoints; under repeated hits a registered mesh
\* eventually leaves the registry; it then stays out under further hits, and no
\* record with hitPoints <= 0 is ever kept.
DamageMonotone ==
    /\ [](HitDecreases /\ AbsentStaysAbsent)
    /\ [](\A mesh \in DOMAIN targets : targets[mesh].hp > 0)
    /\ \A mesh \in Meshes : (mesh \in DOMAIN targets) ~> (mesh \notin DOMAIN targets)

\* the hit that kills a mesh which earlier hits had already weakened
DamageMonotoneWitness ==
    /\ Killed
    /\ last.pre.targets[last.mesh].hp < ConfigOf(last.mesh).hp * 10

\* the category getDamage looks the bonus up under, as the claim words it
CategoryOf(state, overrideCategory) ==
    IF overrideCategory # None THEN Get(overrideCategory)
    ELSE IF state.resourceType # None THEN Get(state.resourceType)
    ELSE IF state.kind \in {"mob", "animal"} THEN state.kind
    ELSE "generic"

\* the damage of the claim, in tenths
EffectiveOf(pre, state, baseDamage, overrideCategory) ==
    IF state.kind = "resource"
    THEN baseDamage * 7 + pre.damageBonus[CategoryOf(state, overrideCategory)] * 10
    ELSE baseDamage * 10 + pre.damageBonus[CategoryOf(state, overrideCategory)] * 10

\* C8 (effective damage): a handleHit on a registered mesh takes baseDamage * 0.7
\* + bonus off a resource and baseDamage + bonus off any other kind, the bonus
\* being that of the override category if given, else of the record's
\* resourceType, else of "mob" or "animal" by kind, else of "generic"; the record
\* is kept with the remainder when that is positive and removed otherwise.
EffectiveDamage ==
    (last.op = "handleHit" /\ last.mesh \in DOMAIN last.pre.targets)
    => LET state == last.pre.targets[last.mesh]
           hp == state.hp - EffectiveOf(last.pre, state, last.baseDamage, last.overrideCategory)
       IN  IF hp > 0
           THEN last.mesh \in DOMAIN targets /\ targets[last.mesh].hp = hp
           ELSE last.mesh \notin DOMAIN targets

\* the example of the specification: a resource with 60 hit points, base damage
\* 25 and no bonus, is left with 42.5
EffectiveDamageWitness ==
    /\ last.op = "handleHit"
    /\ last.mesh \in DOMAIN last.pre.targets
    /\ last.pre.targets[last.mesh].kind = "resource"
    /\ last.pre.targets[last.mesh].hp = 600
    /\ last.baseDamage = 25
    /\ last.overrideCategory = None
    /\ last.pre.damageBonus["wood"] = 0
    /\ last.mesh \in DOMAIN targets
    /\ targets[last.mesh].hp = 425

(***************************************************************************)
(* Claims about the creatures                                              *)
(***************************************************************************)
\* C9 as stated (bounds containment): after any sequence of spawn and update,
\* with any initial position, every mob of the active set has |x| and |z| within
\* terrainHalfSize.
BoundsContainment == \A i \in 1..Len(mobs) : InBounds(position[mobs[i].mesh])

\* C9 (bounds containment, amended): after every update every mob of the active
\* set has |x| and |z| within terrainHalfSize, whatever its position, move and
\* push-out were, and so has a mob that spawn has just placed at its own random
\* position; a mob outside the bounds is one spawned at a position handed in,
\* with no update since.
BoundsAfterTick ==
    /\ last.op = "update" => BoundsContainment
    /\ (last.op = "spawn" /\ ~last.explicit) => InBounds(position[last.mesh])

\* an update of two mobs, one of which it found outside the bounds
BoundsAfterTickWitness ==
    /\ last.op = "update"
    /\ Len(mobs) = 2
    /\ \E i \in 1..Len(mobs) : mobs[i].mesh \in last.strayed
    /\ \E i \in 1..Len(mobs) : mobs[i].mesh \notin last.strayed

\* the meshes of the active set
Active == {mobs[i].mesh : i \in 1..Len(mobs)}

\* C19 as stated (creature/damageable coupling): in every reachable state each
\* mob of the active set has a record with the same mesh in the registry, and each
\* mob or animal record that spawn created and that is still in the registry has a
\* mob in the active set.
Coupling ==
    /\ \A mesh \in Active : mesh \in DOMAIN targets
    /\ \A mesh \in DOMAIN targets : mesh \in Active

\* C19 (creature/damageable coupling, amended): each mob of the active set whose
\* mesh is not disposed has a record with the same mesh in the registry, and each
\* mob or animal record that spawn created and that is still in the registry has
\* one mob in the active set; the mob of a disposed mesh stays in the active set,
\* with no record, until the next update, and after every update the mobs and the
\* records are coupled one to one.
CouplingLazy ==
    /\ \A mesh \in Active : mesh \in DOMAIN targets \/ mesh \in disposed
    /\ \A mesh \in DOMAIN targets :
            /\ targets[mesh].kind \in {"mob", "animal"}
            /\ Cardinality({i \in 1..Len(mobs) : mobs[i].mesh = mesh}) = 1
            /\ mesh \notin disposed
    /\ last.op = "update" => Coupling

\* a killing hit has left the mob of m1 in the active set with no record, m2
\* still has both
CouplingLazyWitness ==
    /\ last.op = "handleHit"
    /\ last.mesh = "m1"
    /\ "m1" \in Active /\ "m1" \notin DOMAIN targets
    /\ "m2" \in Active /\ "m2" \in DOMAIN targets

\* C20 (prune first): an update removes from the active set every mob whose mesh
\* is disposed before it touches a timer or asks for a move, so the timer of a
\* disposed mob is never decreased and no move is asked for it; after the update
\* every mob of the active set has a mesh that is not disposed.
PruneFirst ==
    last.op = "update" =>
        /\ last.stepped \cap disposed = {}
        /\ Active = last.listed \ disposed
        /\ Active \cap disposed = {}

\* an update that found one disposed mob and one live mob in the list
PruneFirstWitness ==
    /\ last.op = "update"
    /\ last.listed \cap disposed # {}
    /\ last.stepped # {}

\* C21 (retarget timer): the dir of a mob changes only in an update in which its
\* changeTimer less delta is <= 0, and that update sets the timer to a draw of
\* [1.5, 3.5); any other update leaves dir and lowers the timer by delta; so after
\* every update and after spawn the changeTimer of each live mob is > 0 and < 3.5.
RetargetTimer ==
    /\ [](\A i \in 1..Len(mobs) :
            mobs[i].mesh \notin disposed =>
                mobs[i].changeTimer > 0 /\ mobs[i].changeTimer < 350)
    /\ [][\A i \in 1..Len(mobs), j \in 1..Len(mobs') :
            mobs'[j].mesh = mobs[i].mesh =>
                IF last'.op = "update" /\ mobs[i].changeTimer - last'.delta <= 0
                THEN mobs'[j].changeTimer >= 150 /\ mobs'[j].changeTimer < 350
                ELSE /\ mobs'[j].dir = mobs[i].dir
                     /\ mobs'[j].changeTimer =
                            IF last'.op = "update"
                            THEN mobs[i].changeTimer - last'.delta
                            ELSE mobs[i].changeTimer]_vars

\* an update has just set the timer of a mob to the greatest draw and turned it
\* to the west
RetargetTimerWitness ==
    /\ last.op = "update"
    /\ \E i \in 1..Len(mobs) : mobs[i].changeTimer = 349 /\ mobs[i].dir = <<-1, 0>>

(***************************************************************************)
(* Claims about the player                                                 *)
(***************************************************************************)
\* C10 as stated (cooldown gating): of two successive left clicks, exactly one
\* casts a ray when the tick time between them sums to less than fireRate, and
\* both cast a ray when it sums to fireRate or more.
CooldownGatingAnyTwo ==
    (last.op = "tryShoot" /\ last.before # None)
    => IF Get(last.before).elapsed < fireRate
       THEN Get(last.before).fired # last.fired
       ELSE Get(last.before).fired /\ last.fired

\* C10 (cooldown gating, amended): after a left click that cast a ray, the next
\* left click is ignored when the tick time between the two sums to less than
\* fireRate, and casts a ray, hitting the mesh it picks with bulletDamage, when
\* that time sums to fireRate or more.
CooldownGating ==
    (last.op = "tryShoot" /\ last.before # None /\ Get(last.before).fired)
    => /\ last.fired <=> Get(last.before).elapsed >= fireRate
       /\ ~last.fired => /\ targets = last.pre.targets
                         /\ inventory = last.pre.inventory
       /\ (last.fired /\ last.target # None /\ Get(last.target) \in DOMAIN last.pre.targets)
            => (\/ Get(last.target) \notin DOMAIN targets
                \/ targets[Get(last.target)].hp < last.pre.targets[Get(last.target)].hp)

\* a left click that hit the rock exactly fireRate of tick time after the one
\* before it had cast a ray
CooldownGatingWitness ==
    /\ last.op = "tryShoot"
    /\ last.before = Some([fired |-> TRUE, elapsed |-> fireRate])
    /\ last.fired
    /\ last.target = Some("m1")
    /\ "m1" \in DOMAIN targets
    /\ targets["m1"].hp < last.pre.targets["m1"].hp
    /\ fireCooldown = fireRate

\* C22 (fire cooldown bounds): every update lowers fireCooldown by delta, down to
\* 0 and never below, whatever the keys and the ground probe are; only a left
\* click that casts a ray raises it, to fireRate; so 0 <= fireCooldown <= fireRate
\* in every reachable state.
CooldownBounds ==
    /\ [](fireCooldown >= 0 /\ fireCooldown <= fireRate)
    /\ [](last.op = "playerUpdate" =>
            fireCooldown = Max(0, last.cooldown - last.delta))
    /\ [][fireCooldown' # fireCooldown =>
            \/ last'.op = "playerUpdate"
            \/ last'.op = "tryShoot" /\ last'.fired /\ fireCooldown' = fireRate]_vars
    /\ [][(last'.op = "tryShoot" /\ ~last'.fired) => fireCooldown' = fireCooldown]_vars

\* an update whose delta was more than what was left of the cooldown
CooldownBoundsWitness ==
    /\ last.op = "playerUpdate"
    /\ last.cooldown > 0
    /\ last.cooldown < last.delta
    /\ fireCooldown = 0

\* C23 (jump gating): an update sets the vertical velocity to jumpStrength only
\* if space is held, the ground probe reports grounded and the current vertical
\* velocity is inside the 0.4 deadband; an update with the player grounded and
\* space not held leaves the vertical velocity at 0; an update with the player
\* airborne leaves the vertical velocity as the physics body reported it.
JumpGating ==
    last.op = "playerUpdate" =>
        /\ (velocityY = jumpStrength /\ last.currentY # jumpStrength) =>
                /\ last.jump
                /\ last.grounded
                /\ last.currentY < 4 /\ last.currentY > -4
        /\ (last.grounded /\ ~last.jump) => velocityY = 0
        /\ ~last.grounded => velocityY = last.currentY

\* an update that started a jump from the ground
JumpGatingWitness ==
    /\ last.op = "playerUpdate"
    /\ last.jump /\ last.grounded /\ last.currentY = 3
    /\ velocityY = jumpStrength

\* C24 (tick-order independence): from any state and for any delta, MobManager's
\* update followed by Player's update leaves the same mobs and positions, the same
\* fireCooldown and vertical velocity, and the same registry and economy as the two
\* in the opposite order.
TickOrderIndependence ==
    last.op = "frame" =>
        /\ last.other = FrameState
        /\ targets = last.pre.targets
        /\ inventory = last.pre.inventory
        /\ skillPoints = last.pre.skillPoints
        /\ damageBonus = last.pre.damageBonus

\* a frame that ran the mobs first, pruned a shot deer, moved the other away from
\* under the player, and ended the cooldown of the gun
TickOrderIndependenceWitness ==
    /\ last.op = "frame"
    /\ ~last.playerFirst
    /\ Len(last.start.mobs) = 2 /\ Len(mobs) = 1
    /\ last.start.position[mobs[1].mesh] = <<0, 0>>
    /\ position[mobs[1].mesh] # <<0, 0>>
    /\ last.start.fireCooldown = fireRate
    /\ fireCooldown = 0

NoStaleCombatState ==
    /\ \A mesh \in DOMAIN targets : mesh \notin disposed
    /\ \A mesh \in disposed : mesh \notin DOMAIN targets

\* the number of deposits a death makes: one per reward entry, one for the grant
DepositsOf(config) ==
    (IF config.reward = None THEN 0 ELSE Len(Get(config.reward)))
        + (IF GrantOf(config) # 0 THEN 1 ELSE 0)

\* C27 (re-entrant safety of death): the record of the dying mesh is removed
\* before the first deposit notifies the subscribers, so a handleHit on the same
\* mesh called by a subscriber during the deposits does nothing: the mesh is
\* disposed once, each subscriber is called once per deposit, and the rewards and
\* the skill points are deposited exactly once.
ReentrantDeath ==
    Killed =>
        /\ \A item \in RewardItems :
              CountOf(inventory, item)
                  = CountOf(last.pre.inventory, item) + RewardOf(ConfigOf(last.mesh), item)
        /\ skillPoints = last.pre.skillPoints + GrantOf(ConfigOf(last.mesh))
        /\ Len(log) = 1 + Len(listeners) * DepositsOf(ConfigOf(last.mesh))
        /\ log[1].cb = "dispose"
        /\ \A i \in 2..Len(log) : log[i].cb # "dispose"

\* the deer has died with "hitAgain" called during its deposits
ReentrantDeathWitness ==
    /\ Killed
    /\ last.mesh = "m2"
    /\ \E i \in 1..Len(log) : log[i].cb = "hitAgain"
    /\ skillPoints > last.pre.skillPoints
    /\ CountOf(inventory, "Meat") > CountOf(last.pre.inventory, "Meat")

\* C28 (frame of handleHit): handleHit(mesh, d) changes at most the record of
\* mesh: no record is added, every other record keeps its hp, kind, reward and
\* skillPoints, and the damage bonuses and the subscribers stay; when the target
\* survives only its hp changes, inventory and skillPoints stay, no mesh is
\* disposed and no subscriber is called.
HitFrame ==
    last.op = "handleHit" =>
        /\ DOMAIN targets \subseteq DOMAIN last.pre.targets
        /\ \A mesh \in DOMAIN last.pre.targets \ {last.mesh} :
                mesh \in DOMAIN targets /\ targets[mesh] = last.pre.targets[mesh]
        /\ damageBonus = last.pre.damageBonus
        /\ listeners = last.pre.listeners
        /\ last.mesh \in DOMAIN targets =>
                /\ last.mesh \in DOMAIN last.pre.targets
                /\ targets[last.mesh] =
                        [last.pre.targets[last.mesh] EXCEPT !.hp = targets[last.mesh].hp]
                /\ inventory = last.pre.inventory
                /\ skillPoints = last.pre.skillPoints
                /\ disposed = last.pre.disposed
                /\ log = << >>

\* the tree has survived a hit while the deer stood registered and the crafting
\* panel was subscribed
HitFrameWitness ==
    /\ last.op = "handleHit"
    /\ last.mesh = "m1"
    /\ "m1" \in DOMAIN targets
    /\ targets["m1"].hp < last.pre.targets["m1"].hp
    /\ "m2" \in DOMAIN targets
    /\ Len(listeners) > 0

\* every item name of the recipes and of the rewards
ItemNames == {"Wood", "Stone", "Fiber", "Plank", "Arrow", "Meat", "Hide"}

\* C29 (notification granularity): a killing handleHit on a record with n reward
\* entries notifies each subscriber n + 1 times when the grant is not 0 and n
\* times when the grant is 0 or absent; a successful craft with m outputs notifies
\* each subscriber m + 1 times; at each notification the subscriber sees the
\* economy with the deposits made so far and no others.
NotifyGranularity ==
    /\ Killed =>
        LET config == last.pre.targets[last.mesh]
            entries == IF config.reward = None THEN << >> ELSE Get(config.reward)
            n == Len(entries)
            rounds == n + (IF GrantOf(config) # 0 THEN 1 ELSE 0)
            said == [i \in 1..(Len(log) - 1) |-> log[i + 1]]
        IN  /\ Len(log) = 1 + Len(listeners) * rounds
            /\ \A k \in 1..rounds : \A j \in 1..Len(listeners) :
                    LET seen == said[(k - 1) * Len(listeners) + j]
                        sofar == SubSeq(entries, 1, IF k <= n THEN k ELSE n)
                    IN  /\ seen.cb = listeners[j]
                        /\ \A item \in ItemNames :
                                CountOf(seen.inventory, item)
                                    = CountOf(last.pre.inventory, item)
                                        + NeededOf(sofar, item)
                        /\ seen.skillPoints =
                                last.pre.skillPoints + (IF k <= n THEN 0 ELSE GrantOf(config))
    /\ (last.op = "craft" /\ last.ret) =>
        LET m == Len(last.recipe.output)
        IN  /\ Len(log) = Len(listeners) * (m + 1)
            /\ \A k \in 1..(m + 1) : \A j \in 1..Len(listeners) :
                    LET seen == log[(k - 1) * Len(listeners) + j]
                        sofar == SubSeq(last.recipe.output, 1, k - 1)
                    IN  /\ seen.cb = listeners[j]
                        /\ \A item \in ItemNames :
                                CountOf(seen.inventory, item)
                                    = CountOf(last.pre.inventory, item)
                                        - NeededOf(last.recipe.cost, item)
                                        + NeededOf(sofar, item)
                        /\ seen.skillPoints = last.pre.skillPoints

\* the leaves have died with two reward entries and a grant, under two subscribers
NotifyGranularityWitness ==
    /\ Killed
    /\ last.pre.targets[last.mesh].reward = leaves.reward
    /\ last.pre.targets[last.mesh].skillPoints = Some(1)
    /\ Len(listeners) = 2
    /\ Len(log) = 7

(***************************************************************************)
(* Further claims about GameState                                          *)
(***************************************************************************)
\* the last operation was a GameState mutator that went through
Mutated ==
    \/ last.op \in {"addResource", "addSkillPoints", "addDamageBonus"}
    \/ last.op \in {"spendResources", "spendSkillPoints"} /\ last.ret

\* one invocation of each subscriber registered before the operation, in
\* registration order, each observing the economy the operation has left
InvokedOnce ==
    log = [i \in 1..Len(last.pre.listeners) |->
            [cb |-> last.pre.listeners[i], inventory |-> inventory,
             skillPoints |-> skillPoints, damageBonus |-> damageBonus]]

\* C11 (change notification): addResource, a successful spendResources,
\* addSkillPoints, a successful spendSkillPoints and addDamageBonus each invoke
\* every registered subscriber exactly once, in registration order, with the
\* mutation already applied; a refused spend invokes no subscriber.
ChangeNotification ==
    /\ Mutated => InvokedOnce
    /\ (last.op \in {"spendResources", "spendSkillPoints"} /\ ~last.ret) => log = << >>
    /\ last.op = "addSkillPoints" =>
            \A i \in 1..Len(log) : log[i].skillPoints = last.pre.skillPoints + last.amount
    /\ last.op = "addResource" =>
            \A i \in 1..Len(log) :
                CountOf(log[i].inventory, last.name)
                    = CountOf(last.pre.inventory, last.name) + last.amount

\* a successful spend with two different subscribers registered, both invoked
ChangeNotificationWitness ==
    /\ last.op = "spendResources"
    /\ last.ret
    /\ Len(last.cost) > 0
    /\ last.pre.listeners = <<"updateSkills", "updateInventory">>
    /\ Len(log) = 2
    /\ log[1].cb = "updateSkills"
    /\ log[2].cb = "updateInventory"

\* C12 (skill point spend): spendSkillPoints(amount) with skillPoints < amount
\* returns false and leaves skillPoints, inventory and damage bonuses as they
\* were; with skillPoints >= amount it returns true and skillPoints is less by
\* exactly amount.
SkillSpend ==
    last.op = "spendSkillPoints"
    => IF last.pre.skillPoints < last.amount
       THEN /\ last.ret = FALSE
            /\ skillPoints = last.pre.skillPoints
            /\ inventory = last.pre.inventory
            /\ damageBonus = last.pre.damageBonus
       ELSE /\ last.ret = TRUE
            /\ skillPoints = last.pre.skillPoints - last.amount

\* the whole balance spent at once, with resources and a bonus in hand
SkillSpendWitness ==
    /\ last.op = "spendSkillPoints"
    /\ last.amount = 2
    /\ last.pre.skillPoints = 2
    /\ last.ret = TRUE
    /\ skillPoints = 0
    /\ inventory # << >>
    /\ damageBonus["wood"] > 0

\* C13 (craft is all-or-nothing): when some cost item of the recipe is
\* undersupplied, craft leaves the inventory as it was, with no output item
\* added; otherwise every item count is the old count less the recipe's cost
\* entry plus the recipe's output entry.
CraftAllOrNothing ==
    last.op = "craft"
    => IF \E i \in 1..Len(last.recipe.cost) :
            CountOf(last.pre.inventory, last.recipe.cost[i][1]) < last.recipe.cost[i][2]
       THEN /\ last.ret = FALSE
            /\ inventory = last.pre.inventory
       ELSE /\ last.ret = TRUE
            /\ \A item \in Mentioned :
                 CountOf(inventory, item)
                    = CountOf(last.pre.inventory, item) - NeededOf(last.recipe.cost, item)
                        + NeededOf(last.recipe.output, item)

\* Arrows crafted from 1 Wood and 2 Stone: 4 Arrows, no Wood and 1 Stone are left
CraftAllOrNothingWitness ==
    /\ last.op = "craft"
    /\ last.recipe = Arrows
    /\ CountOf(last.pre.inventory, "Wood") = 1
    /\ CountOf(last.pre.inventory, "Stone") = 2
    /\ last.ret = TRUE
    /\ CountOf(inventory, "Wood") = 0
    /\ CountOf(inventory, "Stone") = 1
    /\ CountOf(inventory, "Arrow") = 4

UnregisterRemoves ==
    /\ last.op = "unregister" =>
            /\ last.mesh \notin DOMAIN targets
            /\ inventory = last.pre.inventory
            /\ skillPoints = last.pre.skillPoints
    /\ StaleHitNoOp

\* C16 (register replaces): register on a mesh that already has a record puts
\* the hit points, kind, reward table and skill points of the new config in its
\* place and deposits nothing; what a kill deposits is the reward and the skill
\* points of the record in place at that moment, so those of a replaced record
\* are never deposited.
RegisterReplaces ==
    /\ (last.op = "register" /\ last.mesh \in DOMAIN last.pre.targets) =>
            /\ last.mesh \in DOMAIN targets
            /\ targets[last.mesh].hp = last.config.hp * 10
            /\ targets[last.mesh].kind = last.config.kind
            /\ targets[last.mesh].reward = last.config.reward
            /\ targets[last.mesh].skillPoints = last.config.skillPoints
            /\ inventory = last.pre.inventory
            /\ skillPoints = last.pre.skillPoints
            /\ \A other \in DOMAIN last.pre.targets \ {last.mesh} :
                    other \in DOMAIN targets /\ targets[other] = last.pre.targets[other]
    /\ Killed =>
            /\ \A item \in RewardItems :
                    CountOf(inventory, item)
                        = CountOf(last.pre.inventory, item)
                            + RewardOf(last.pre.targets[last.mesh], item)
            /\ skillPoints = last.pre.skillPoints + GrantOf(last.pre.targets[last.mesh])
    /\ (last.op = "handleHit" /\ ~Killed) =>
            inventory = last.pre.inventory /\ skillPoints = last.pre.skillPoints

\* a tree that hits have weakened is registered again as leaves, at full hit points
RegisterReplacesWitness ==
    /\ last.op = "register"
    /\ last.mesh \in DOMAIN last.pre.targets
    /\ last.pre.targets[last.mesh].reward = tree.reward
    /\ last.pre.targets[last.mesh].hp < tree.hp * 10
    /\ last.config = leaves
    /\ targets[last.mesh].hp = leaves.hp * 10
    /\ targets[last.mesh].reward = leaves.reward

\* a sequence of subscribers without the entries of one of them, the rest in order
RECURSIVE Without(_, _)
Without(subscribers, cb) ==
    IF subscribers = << >> THEN << >>
    ELSE IF Head(subscribers) = cb THEN Without(Tail(subscribers), cb)
    ELSE <<Head(subscribers)>> \o Without(Tail(subscribers), cb)

\* C17 (deregistration): once the function returned by onChange(cb) has been
\* called, cb is no longer registered and the other subscribers are, in their
\* registration order; the subscribers stay as they are until the next onChange
\* or unsubscribe, and every mutation invokes exactly the registered ones, in
\* that order, so cb is not invoked again while the others still are.
Deregistration ==
    /\ last.op = "offChange" =>
            /\ \A i \in 1..Len(listeners) : listeners[i] # last.cb
            /\ listeners = Without(last.pre.listeners, last.cb)
    /\ last.op \in {"addResource", "spendResources", "addSkillPoints", "spendSkillPoints",
                     "addDamageBonus"} => listeners = last.pre.listeners
    /\ Mutated =>
            /\ Len(log) = Len(listeners)
            /\ \A i \in 1..Len(log) : log[i].cb = listeners[i]

\* the subscriber registered first is taken out and the second one stays
DeregistrationWitness ==
    /\ last.op = "offChange"
    /\ last.cb = "updateInventory"
    /\ last.pre.listeners = <<"updateInventory", "updateSkills">>
    /\ listeners = <<"updateSkills">>

EntriesStay ==
    /\ [][DOMAIN inventory \subseteq DOMAIN inventory']_vars
    /\ [](last.op = "addResource" => last.name \in DOMAIN inventory)
    /\ []((last.op \in {"spendResources", "craft"} /\ last.ret) =>
            LET cost == IF last.op = "craft" THEN last.recipe.cost ELSE last.cost
            IN  \A i \in 1..Len(cost) :
                    /\ cost[i][1] \in DOMAIN inventory
                    /\ (last.op = "spendResources"
                            /\ CountOf(last.pre.inventory, cost[i][1]) = cost[i][2])
                        => inventory[cost[i][1]] = 0)

\* a spend has taken all the Wood there was, and Wood is listed with 0
EntriesStayWitness ==
    /\ last.op = "spendResources"
    /\ last.ret
    /\ CountOf(last.pre.inventory, "Wood") > 0
    /\ "Wood" \in DOMAIN inventory
    /\ inventory["Wood"] = 0

=============================================================================
